---- MODULE Spec2Model ----
(***************************************************************************)
(* Model of makeNoiseU.py: main() reads 0/C and 0/U, builds a nonuniform   *)
(* internalField block of seeded noise, substitutes it into the text of    *)
(* 0/U with two regular expressions, writes 0/U.bak and overwrites 0/U.    *)
(*                                                                         *)
(* A file's text is a sequence of lexemes (tokens).  The regular           *)
(* expressions of the script are evaluated on that sequence exactly as     *)
(* Python's re evaluates them on the characters: leftmost match, greedy    *)
(* and lazy quantifiers, count=1.                                          *)
(***************************************************************************)
EXTENDS Integers, Sequences, FiniteSets, TLC

(***************************************************************************)
(* Bounds of the model.                                                    *)
(***************************************************************************)
MaxCells == 2
MaxRuns == 2

(***************************************************************************)
(* Lexemes.  k is the kind, v and d carry a value: for "int" the digits'   *)
(* value, for "flt" the rational v/d, for "W" the identity of a word.      *)
(***************************************************************************)
Tok(k, v, d) == [k |-> k, v |-> v, d |-> d]
tIF == Tok("internalField", 0, 0)
tUNI == Tok("uniform", 0, 0)
tNON == Tok("nonuniform", 0, 0)
tLV == Tok("List<vector>", 0, 0)
tSP == Tok("SP", 0, 0)
tNL == Tok("NL", 0, 0)
tLP == Tok("LP", 0, 0)
tRP == Tok("RP", 0, 0)
tSC == Tok("SC", 0, 0)
tInt(n) == Tok("int", n, 1)
tFlt(v, d) == Tok("flt", v, d)
tW(i) == Tok("W", i, 0)

(***************************************************************************)
(* Building blocks of the regular expressions.  A position p is the index  *)
(* of the next lexeme to consume; a matcher returns the position after the *)
(* match, or 0 when there is no match.                                     *)
(***************************************************************************)
IsWs(t) == t.k \in {"SP", "NL"}
IsNum(t) == t.k \in {"int", "flt"}
Is(s, p, k) == p >= 1 /\ p <= Len(s) /\ s[p].k = k

RECURSIVE SkipWs(_, _)
SkipWs(s, p) == IF p <= Len(s) /\ IsWs(s[p]) THEN SkipWs(s, p + 1) ELSE p

WsPlus(s, p) == LET q == SkipWs(s, p) IN IF q > p THEN q ELSE 0

WsEndNl(s, p) ==
    LET q == SkipWs(s, p) IN IF q > p /\ s[q - 1].k = "NL" THEN q ELSE 0

RECURSIVE FirstKind(_, _, _)
FirstKind(s, p, k) ==
    IF p > Len(s) THEN 0
    ELSE IF s[p].k = k THEN p ELSE FirstKind(s, p + 1, k)

Drop(s, p) == SubSeq(s, p, Len(s))
Take(s, p) == SubSeq(s, 1, p - 1)

RECURSIVE StripLeft(_)
StripLeft(s) == IF s # <<>> /\ IsWs(Head(s)) THEN StripLeft(Tail(s)) ELSE s
RECURSIVE StripRight(_)
StripRight(s) ==
    IF s # <<>> /\ IsWs(s[Len(s)]) THEN StripRight(Take(s, Len(s))) ELSE s
strip(s) == StripRight(StripLeft(s))

(***************************************************************************)
(* re.search(r"internalField\s+nonuniform\s+List<vector>\s*\n(\d+)\s*\n\(") *)
(* HeaderAt gives the position of group 1 for a match that starts at i,    *)
(* 0 when the pattern does not match there.                                *)
(***************************************************************************)
HeaderAt(s, i) ==
    LET a == WsPlus(s, i + 1)
        b == WsPlus(s, a + 1)
        c == WsEndNl(s, b + 1)
        d == WsEndNl(s, c + 1)
    IN  IF /\ Is(s, i, "internalField")
           /\ a # 0 /\ Is(s, a, "nonuniform")
           /\ b # 0 /\ Is(s, b, "List<vector>")
           /\ c # 0 /\ Is(s, c, "int")
           /\ d # 0 /\ Is(s, d, "LP")
        THEN c ELSE 0

RECURSIVE SearchHeader(_, _)
SearchHeader(s, i) ==
    IF i > Len(s) THEN 0
    ELSE IF HeaderAt(s, i) # 0 THEN HeaderAt(s, i) ELSE SearchHeader(s, i + 1)

(***************************************************************************)
(* txtC.split("internalField", 1)[1]: the text after the first occurrence. *)
(***************************************************************************)
SplitAfterFirst(s) == Drop(s, FirstKind(s, 1, "internalField") + 1)

(***************************************************************************)
(* re.findall(r"\(\s*(NUM)\s+(NUM)\s+(NUM)\s*\)") with NUM = [eE0-9+-.]+ : *)
(* VecAt is the end of a match starting at p, findall the list of groups   *)
(* of the non-overlapping matches, scanning left to right.                 *)
(***************************************************************************)
VecAt(s, p) ==
    LET a == SkipWs(s, p + 1)
        b == WsPlus(s, a + 1)
        c == WsPlus(s, b + 1)
        d == SkipWs(s, c + 1)
    IN  IF /\ Is(s, p, "LP")
           /\ a <= Len(s) /\ IsNum(s[a])
           /\ b # 0 /\ b <= Len(s) /\ IsNum(s[b])
           /\ c # 0 /\ c <= Len(s) /\ IsNum(s[c])
           /\ Is(s, d, "RP")
        THEN d + 1 ELSE 0

VecGroups(s, p) ==
    LET a == SkipWs(s, p + 1)
        b == WsPlus(s, a + 1)
        c == WsPlus(s, b + 1)
    IN  <<s[a], s[b], s[c]>>

RECURSIVE findall(_, _)
findall(s, p) ==
    IF p > Len(s) THEN <<>>
    ELSE IF VecAt(s, p) # 0
         THEN <<VecGroups(s, p)>> \o findall(s, VecAt(s, p))
         ELSE findall(s, p + 1)

(***************************************************************************)
(* The primary pattern of re.subn:                                         *)
(*   internalField\s+(?:uniform\s+\([^\)]+\)                               *)
(*     |nonuniform\s+List<vector>\s*\n\d+\s*\n\([\s\S]*?\)\s*\)\s*;)\s*;   *)
(* UniformAlt and NonuniformAlt give the end of the alternative, started   *)
(* after "internalField\s+"; SemiAfterWs is the closing \s*; .            *)
(***************************************************************************)
UniformAlt(s, a) ==
    LET b == WsPlus(s, a + 1)
        c == FirstKind(s, b + 1, "RP")
    IN  IF /\ Is(s, a, "uniform")
           /\ b # 0 /\ Is(s, b, "LP")
           /\ c > b + 1
        THEN c + 1 ELSE 0

SemiAfterWs(s, p) ==
    LET q == SkipWs(s, p) IN IF Is(s, q, "SC") THEN q + 1 ELSE 0

\* CloseAt without the pattern's final \s*; (the pattern its comment describes)
CloseAtSingle(s, j) ==
    LET a == SkipWs(s, j + 1)
    IN  IF Is(s, j, "RP") /\ Is(s, a, "RP") THEN SemiAfterWs(s, a + 1) ELSE 0

\* \)\s*\)\s*;  followed by the pattern's final  \s*;
CloseAt(s, j) ==
    LET a == SkipWs(s, j + 1)
        b == SemiAfterWs(s, a + 1)
    IN  IF Is(s, j, "RP") /\ Is(s, a, "RP") /\ b # 0
        THEN SemiAfterWs(s, b) ELSE 0

\* [\s\S]*? : the shortest extension after which the rest of the pattern matches
RECURSIVE LazyClose(_, _)
LazyClose(s, j) ==
    IF j > Len(s) THEN 0
    ELSE IF CloseAt(s, j) # 0 THEN CloseAt(s, j) ELSE LazyClose(s, j + 1)

NonuniformAlt(s, a) ==
    LET b == WsPlus(s, a + 1)
        c == WsEndNl(s, b + 1)
        d == WsEndNl(s, c + 1)
    IN  IF /\ Is(s, a, "nonuniform")
           /\ b # 0 /\ Is(s, b, "List<vector>")
           /\ c # 0 /\ Is(s, c, "int")
           /\ d # 0 /\ Is(s, d, "LP")
        THEN LazyClose(s, d + 1) ELSE 0

PrimaryAt(s, i) ==
    LET a == WsPlus(s, i + 1)
        u == UniformAlt(s, a)
    IN  IF Is(s, i, "internalField") /\ a # 0
        THEN IF u # 0 /\ SemiAfterWs(s, u) # 0 THEN SemiAfterWs(s, u)
             ELSE NonuniformAlt(s, a)
        ELSE 0

(***************************************************************************)
(* The fallback pattern:  internalField\s+uniform\s+\([^\)]+\);\s*         *)
(***************************************************************************)
FallbackAt(s, i) ==
    LET a == WsPlus(s, i + 1)
        u == UniformAlt(s, a)
    IN  IF Is(s, i, "internalField") /\ a # 0 /\ u # 0 /\ Is(s, u, "SC")
        THEN SkipWs(s, u + 1) ELSE 0

(***************************************************************************)
(* re.subn(pattern, repl, txt, count=1): the leftmost match is replaced.   *)
(* repl holds no backslash, so the template is inserted as it is.          *)
(***************************************************************************)
RECURSIVE SearchPrimary(_, _)
SearchPrimary(s, i) ==
    IF i > Len(s) THEN 0
    ELSE IF PrimaryAt(s, i) # 0 THEN i ELSE SearchPrimary(s, i + 1)

RECURSIVE SearchFallback(_, _)
SearchFallback(s, i) ==
    IF i > Len(s) THEN 0
    ELSE IF FallbackAt(s, i) # 0 THEN i ELSE SearchFallback(s, i + 1)

subnPrimary(repl, s) ==
    LET i == SearchPrimary(s, 1)
    IN  IF i = 0 THEN [txt |-> s, n |-> 0]
        ELSE [txt |-> Take(s, i) \o repl \o Drop(s, PrimaryAt(s, i)), n |-> 1]

subnFallback(repl, s) ==
    LET i == SearchFallback(s, 1)
    IN  IF i = 0 THEN [txt |-> s, n |-> 0]
        ELSE [txt |-> Take(s, i) \o repl \o Drop(s, FallbackAt(s, i)), n |-> 1]

(***************************************************************************)
(* The user knobs.  amp = 0.1 is the rational ampNum / ampDen.             *)
(***************************************************************************)
ampNum == 1
ampDen == 10
seed == 7

(***************************************************************************)
(* np.random.default_rng(seed): the generator's state is a function of the *)
(* seed alone; only a missing seed (modelled as a negative one) makes      *)
(* numpy draw the state from the operating system's entropy.  The bit      *)
(* generator is abstracted to a small congruential one, a draw to a small  *)
(* integer: what matters is that the stream is a function of the state.    *)
(***************************************************************************)
Entropy == {0, 1}
\* default_rng() called without the seed
default_rng_unseeded(sd, entropy) == entropy
default_rng(sd, entropy) == IF sd < 0 THEN entropy ELSE sd

NextRng(st) == (5 * st + 3) % 64
Variate(st) == (st % 7) - 3

\* rng.standard_normal(n): n draws, the generator advancing at each
RECURSIVE standard_normal(_, _)
standard_normal(st, n) ==
    IF n = 0 THEN <<>>
    ELSE <<Variate(NextRng(st))>> \o standard_normal(NextRng(st), n - 1)

RECURSIVE Advance(_, _)
Advance(st, n) == IF n = 0 THEN st ELSE Advance(NextRng(st), n - 1)

RECURSIVE Sum(_)
Sum(xs) == IF xs = <<>> THEN 0 ELSE Head(xs) + Sum(Tail(xs))

\* x -= x.mean(): element i becomes (n*x[i] - sum(x)) / n, kept as a rational
Rat(v, d) == [v |-> v, d |-> d]
Centered(xs) == [i \in 1..Len(xs) |-> Rat(Len(xs) * xs[i] - Sum(xs), Len(xs))]

\* amp * x
Scaled(x) == Rat(ampNum * x.v, ampDen * x.d)

\* U = np.ones((nCells, 3)); U[:, 1] = amp * Uy; U[:, 2] = amp * Uz
ones(n) == [i \in 1..n |-> <<Rat(1, 1), Rat(1, 1), Rat(1, 1)>>]
\* one row too few
UArrayShort(n, Uy, Uz) ==
    [i \in 1..(n - 1) |-> <<ones(n)[i][1], Scaled(Uy[i]), Scaled(Uz[i])>>]
UArray(n, Uy, Uz) ==
    [i \in 1..n |-> <<ones(n)[i][1], Scaled(Uy[i]), Scaled(Uz[i])>>]

(***************************************************************************)
(* f"{u:.8e}": the text of a number.  Equal values give equal text, so the *)
(* rational is put in lowest terms with a positive denominator.            *)
(***************************************************************************)
Abs(x) == IF x < 0 THEN -x ELSE x
RECURSIVE Gcd(_, _)
Gcd(a, b) == IF b = 0 THEN a ELSE Gcd(b, a % b)
Fmt(x) ==
    LET g == Gcd(Abs(x.v), Abs(x.d))
    IN  IF x.v = 0 THEN tFlt(0, 1) ELSE tFlt(x.v \div g, x.d \div g)

FmtRow(u) == <<tLP, Fmt(u[1]), tSP, Fmt(u[2]), tSP, Fmt(u[3]), tRP>>

\* "\n".join(rows)
RECURSIVE Join(_)
Join(rows) ==
    IF rows = <<>> THEN <<>>
    ELSE IF Len(rows) = 1 THEN FmtRow(rows[1])
    ELSE FmtRow(rows[1]) \o <<tNL>> \o Join(Tail(rows))

NewInternal(n, U) ==
    <<tIF, tSP, tSP, tSP, tNON, tSP, tLV, tNL, tInt(n), tNL, tLP, tNL>>
    \o Join(U) \o <<tNL, tRP, tSC, tNL>>

(***************************************************************************)
(* The files of the case directory the runs start from.  A file is absent  *)
(* or holds text.  The texts are assembled from a header, an internalField *)
(* declaration in one of the forms met in OpenFOAM cases, and a trailer    *)
(* (the boundaryField section).                                            *)
(***************************************************************************)
File(txt) == [exists |-> TRUE, data |-> txt]
Absent == [exists |-> FALSE, data |-> <<>>]

Hdr == <<tW(1), tNL>>
Vec0 == <<tLP, tInt(0), tSP, tInt(0), tSP, tInt(0), tRP>>
Vec1 == <<tLP, tInt(1), tSP, tInt(1), tSP, tInt(1), tRP>>
Coord(j, cv) == <<tLP, tFlt(j, 1 + cv), tSP, tInt(0), tSP, tInt(0), tRP>>

RECURSIVE CoordLines(_, _)
CoordLines(m, cv) ==
    IF m = 0 THEN <<>> ELSE CoordLines(m - 1, cv) \o Coord(m, cv) \o <<tNL>>

\* internalField nonuniform List<vector> \n n \n ( \n m tuples \n )
NonuniformHead(n, m, cv) ==
    <<tIF, tSP, tNON, tSP, tLV, tNL, tInt(n), tNL, tLP, tNL>>
    \o CoordLines(m, cv) \o <<tRP>>

UniformHead == <<tIF, tSP, tUNI, tSP>> \o Vec0

UDecls ==
    {UniformHead \o <<tSC>>,
     UniformHead \o <<tSP, tSC>>,
     UniformHead,
     <<>>}
    \cup {NonuniformHead(k, k, 0) \o <<tSC>> : k \in 0..1}
    \cup {NonuniformHead(k, k, 0) \o <<tSC, tSC>> : k \in 0..1}

BndValue == <<tW(3), tSP, tNON, tSP, tLV, tSP, tInt(1), tLP>> \o Vec0 \o <<tRP, tSC>>

UTrailers ==
    {<<tNL, tW(2), tNL>>,
     <<tSC, tNL, tW(2), tNL>>,
     <<tNL, tW(2), tSP>> \o BndValue \o <<tNL, tW(4), tNL>>,
     <<tNL, tW(2), tSP>> \o BndValue \o <<tNL, tSC, tNL, tW(4), tNL>>,
     <<tNL, tW(2), tNL, tIF, tSP, tUNI, tSP>> \o Vec1 \o <<tSC, tNL>>}

UTexts == {Hdr \o d \o t : d \in UDecls, t \in UTrailers}

CDecls ==
    {NonuniformHead(n, m, 0) \o <<tSC>> : n \in 0..MaxCells, m \in 0..MaxCells}
    \cup {NonuniformHead(n, n, 1) \o <<tSC>> : n \in 1..MaxCells}
    \cup {UniformHead \o <<tSC>>}

CTrailers ==
    {<<tNL, tW(2), tNL>>,
     <<tNL, tW(2), tSP, tW(3), tSP, tUNI, tSP>> \o Vec0 \o <<tSC, tNL>>}

CTexts == {Hdr \o d \o t : d \in CDecls, t \in CTrailers}

BakTexts == {<<tW(9), tNL>>}

VARIABLES
    fsU, fsC, fsBak,        \* the files 0/U, 0/C, 0/U.bak
    pc,                     \* the statement main() is at
    err,                    \* the exception main() ended with, "" if none
    txtU, txtC,             \* locals of main()
    nCells, vecs,
    Uy, Uz,
    new_internal,
    txtU2, nsubs,
    run,                    \* number of the current invocation
    preU, preBak,           \* 0/U and 0/U.bak when the current run started
    u0, c0,                 \* 0/U and 0/C when the first run started
    results                 \* what the successful runs so far read and wrote

locals == <<txtU, txtC, nCells, vecs, Uy, Uz, new_internal, txtU2, nsubs>>
files == <<fsU, fsC, fsBak>>
ghosts == <<run, preU, preBak, u0, c0, results>>
vars == <<files, pc, err, locals, ghosts>>

ResetLocals ==
    /\ txtU' = <<>> /\ txtC' = <<>> /\ nCells' = 0 /\ vecs' = <<>>
    /\ Uy' = <<>> /\ Uz' = <<>> /\ new_internal' = <<>>
    /\ txtU2' = <<>> /\ nsubs' = 0

Init ==
    /\ fsU \in {File(t) : t \in UTexts} \cup {Absent}
    /\ fsC \in {File(t) : t \in CTexts} \cup {Absent}
    /\ fsBak \in {File(t) : t \in BakTexts} \cup {Absent}
    /\ pc = "checkU" /\ err = ""
    /\ txtU = <<>> /\ txtC = <<>> /\ nCells = 0 /\ vecs = <<>>
    /\ Uy = <<>> /\ Uz = <<>> /\ new_internal = <<>>
    /\ txtU2 = <<>> /\ nsubs = 0
    /\ run = 1
    /\ preU = fsU /\ preBak = fsBak
    /\ u0 = fsU /\ c0 = fsC
    /\ results = {}

Raise(e) == pc' = "failed" /\ err' = e

\* if not Ufile.exists(): raise FileNotFoundError
CheckUfile ==
    /\ pc = "checkU"
    /\ IF fsU.exists THEN pc' = "checkC" /\ err' = err ELSE Raise("MissingU")
    /\ UNCHANGED <<files, locals, ghosts>>

\* if not Cfile.exists(): raise FileNotFoundError
CheckCfile ==
    /\ pc = "checkC"
    /\ IF fsC.exists THEN pc' = "readU" /\ err' = err ELSE Raise("MissingC")
    /\ UNCHANGED <<files, locals, ghosts>>

\* txtU = Ufile.read_text()
ReadU ==
    /\ pc = "readU"
    /\ txtU' = fsU.data
    /\ pc' = "readC"
    /\ UNCHANGED <<files, err, txtC, nCells, vecs, Uy, Uz, new_internal, txtU2, nsubs, ghosts>>

\* txtC = Cfile.read_text()
ReadC ==
    /\ pc = "readC"
    /\ txtC' = fsC.data
    /\ pc' = "parse"
    /\ UNCHANGED <<files, err, txtU, nCells, vecs, Uy, Uz, new_internal, txtU2, nsubs, ghosts>>

\* m = re.search(...); if not m: raise RuntimeError; nCells = int(m.group(1))
ParseNCells(txt) == txt[SearchHeader(txt, 1)].v

ParseCells ==
    /\ pc = "parse"
    /\ IF SearchHeader(txtC, 1) = 0
       THEN Raise("BadHeader") /\ nCells' = nCells
       ELSE pc' = "extract" /\ err' = err /\ nCells' = ParseNCells(txtC)
    /\ UNCHANGED <<files, txtU, txtC, vecs, Uy, Uz, new_internal, txtU2, nsubs, ghosts>>

\* block = txtC.split("internalField", 1)[1]; vecs = re.findall(..., block)
ExtractBlock(txt) == findall(SplitAfterFirst(txt), 1)

\* if len(vecs) < nCells: raise RuntimeError
ExtractVecs ==
    /\ pc = "extract"
    /\ vecs' = ExtractBlock(txtC)
    /\ IF Len(vecs') < nCells
       THEN Raise("CountMismatch")
       ELSE pc' = "noise" /\ err' = err
    /\ UNCHANGED <<files, txtU, txtC, nCells, Uy, Uz, new_internal, txtU2, nsubs, ghosts>>

\* rng = default_rng(seed); Uy, Uz = rng.standard_normal(nCells) twice;
\* Uy -= Uy.mean(); Uz -= Uz.mean()
MakeNoise ==
    /\ pc = "noise"
    /\ \E e \in Entropy :
         LET rng == default_rng(seed, e)
         IN  /\ Uy' = Centered(standard_normal(rng, nCells))
             /\ Uz' = Centered(standard_normal(Advance(rng, nCells), nCells))
    /\ pc' = "build"
    /\ UNCHANGED <<files, err, txtU, txtC, nCells, vecs, new_internal, txtU2, nsubs, ghosts>>

\* U = ...; Ulist = ...; new_internal = ...
BuildInternal ==
    /\ pc = "build"
    /\ new_internal' = NewInternal(nCells, UArray(nCells, Uy, Uz))
    /\ pc' = "primary"
    /\ UNCHANGED <<files, err, txtU, txtC, nCells, vecs, Uy, Uz, txtU2, nsubs, ghosts>>

\* txtU2, nsubs = re.subn(primary, new_internal.strip() + "\n", txtU, count=1)
ReplacePrimary ==
    /\ pc = "primary"
    /\ LET r == subnPrimary(strip(new_internal) \o <<tNL>>, txtU)
       IN  txtU2' = r.txt /\ nsubs' = r.n
    /\ pc' = "fallback"
    /\ UNCHANGED <<files, err, txtU, txtC, nCells, vecs, Uy, Uz, new_internal, ghosts>>

\* if nsubs == 0: txtU2, nsubs = re.subn(fallback, new_internal, txtU, count=1)
ReplaceFallback ==
    /\ pc = "fallback"
    /\ IF nsubs = 0
       THEN LET r == subnFallback(new_internal, txtU)
            IN  txtU2' = r.txt /\ nsubs' = r.n
       ELSE txtU2' = txtU2 /\ nsubs' = nsubs
    /\ pc' = "checkSubs"
    /\ UNCHANGED <<files, err, txtU, txtC, nCells, vecs, Uy, Uz, new_internal, ghosts>>

\* 0/U opened for writing before the test of nsubs
CheckReplacedAfterOpen ==
    /\ pc = "checkSubs"
    /\ fsU' = File(<<>>)
    /\ IF nsubs = 0 THEN Raise("PatternNotFound") ELSE pc' = "bakOpen" /\ err' = err
    /\ UNCHANGED <<fsC, fsBak, locals, ghosts>>

\* if nsubs == 0: raise RuntimeError("Could not find/replace internalField")
CheckReplaced ==
    /\ pc = "checkSubs"
    /\ IF nsubs = 0 THEN Raise("PatternNotFound") ELSE pc' = "bakOpen" /\ err' = err
    /\ UNCHANGED <<files, locals, ghosts>>

\* 0/U opened for writing before the backup is written
BakOpenAfterU ==
    /\ pc = "bakOpen"
    /\ fsU' = File(<<>>)
    /\ fsBak' = File(<<>>)
    /\ pc' = "bakWrite"
    /\ UNCHANGED <<fsC, err, locals, ghosts>>

\* bak.write_text(txtU): open(bak, "w") creates or truncates the file ...
BakOpen ==
    /\ pc = "bakOpen"
    /\ fsBak' = File(<<>>)
    /\ pc' = "bakWrite"
    /\ UNCHANGED <<fsU, fsC, err, locals, ghosts>>

\* the backup written from the new text
BakWriteNew ==
    /\ pc = "bakWrite"
    /\ fsBak' = File(txtU2)
    /\ pc' = "uOpen"
    /\ UNCHANGED <<fsU, fsC, err, locals, ghosts>>

\* ... then the text is written and the file closed
BakWrite ==
    /\ pc = "bakWrite"
    /\ fsBak' = File(txtU)
    /\ pc' = "uOpen"
    /\ UNCHANGED <<fsU, fsC, err, locals, ghosts>>

\* Ufile.write_text(txtU2): open(Ufile, "w") truncates the file ...
UOpen ==
    /\ pc = "uOpen"
    /\ fsU' = File(<<>>)
    /\ pc' = "uWrite"
    /\ UNCHANGED <<fsBak, fsC, err, locals, ghosts>>

\* ... then the text is written and the file closed; main() returns
UWrite ==
    /\ pc = "uWrite"
    /\ fsU' = File(txtU2)
    /\ pc' = "done"
    /\ results' = results \cup
         {[u |-> txtU, c |-> txtC, n |-> nCells, outU |-> txtU2, outBak |-> fsBak.data]}
    /\ UNCHANGED <<fsBak, fsC, err, locals, run, preU, preBak, u0, c0>>

Ended == pc \in {"done", "failed", "killed"}

\* the script is invoked again on the files the previous run left
Restart ==
    /\ Ended
    /\ run < MaxRuns
    /\ run' = run + 1
    /\ pc' = "checkU" /\ err' = ""
    /\ ResetLocals
    /\ preU' = fsU /\ preBak' = fsBak
    /\ UNCHANGED <<files, u0, c0, results>>

\* the process is killed between two statements or inside a write
Interrupt ==
    /\ ~Ended
    /\ pc' = "killed"
    /\ UNCHANGED <<files, err, locals, ghosts>>

\* after the first run the user restores 0/U from the backup and regenerates
\* 0/C (postProcess -func writeCellCentres), then runs the script a second
\* time: the two runs are the pair that is compared
RestoreCase ==
    /\ pc = "done"
    /\ run = 1
    /\ fsU' = fsBak
    /\ fsC' \in {File(t) : t \in CTexts}
    /\ run' = run + 1
    /\ pc' = "checkU" /\ err' = ""
    /\ ResetLocals
    /\ preU' = fsU' /\ preBak' = fsBak
    /\ UNCHANGED <<fsBak, u0, c0, results>>

Step ==
    \/ CheckUfile \/ CheckCfile \/ ReadU \/ ReadC
    \/ ParseCells \/ ExtractVecs \/ MakeNoise \/ BuildInternal
    \/ ReplacePrimary \/ ReplaceFallback \/ CheckReplaced
    \/ BakOpen \/ BakWrite \/ UOpen \/ UWrite

Next == Step \/ Restart
Spec == Init /\ [][Next]_vars

NextCrash == Step \/ Restart \/ Interrupt
SpecCrash == Init /\ [][NextCrash]_vars

NextRestore == Step \/ RestoreCase
SpecRestore == Init /\ [][NextRestore]_vars

(***************************************************************************)
(* The file grammar the properties speak of, read off the text itself and  *)
(* not off what the script's patterns matched.                             *)
(***************************************************************************)
\* position after the run of tuples (and white space) that starts at p
RECURSIVE SkipVecs(_, _)
SkipVecs(s, p) ==
    LET q == SkipWs(s, p)
    IN  IF VecAt(s, q) # 0 THEN SkipVecs(s, VecAt(s, q)) ELSE q

\* number of tuples in that run
RECURSIVE CountVecs(_, _)
CountVecs(s, p) ==
    LET q == SkipWs(s, p)
    IN  IF VecAt(s, q) # 0 THEN 1 + CountVecs(s, VecAt(s, q)) ELSE 0

\* every tuple of that run has t as its first element
RECURSIVE AllFirst(_, _, _)
AllFirst(s, p, t) ==
    LET q == SkipWs(s, p)
    IN  IF VecAt(s, q) # 0
        THEN VecGroups(s, q)[1] = t /\ AllFirst(s, VecAt(s, q), t)
        ELSE TRUE

\* the "(" that opens the list of the nonuniform declaration starting at i
ListOpen(s, i) == WsEndNl(s, HeaderAt(s, i) + 1)

\* end (position after the ";") of the declaration starting at i, 0 if none:
\*   internalField uniform (x y z) ;
\*   internalField nonuniform List<vector> \n n \n ( tuples ) ;
UniformDeclEnd(s, i) ==
    LET a == WsPlus(s, i + 1)
    IN  IF Is(s, i, "internalField") /\ a # 0 /\ UniformAlt(s, a) # 0
        THEN SemiAfterWs(s, UniformAlt(s, a)) ELSE 0

NonuniformDeclEnd(s, i) ==
    LET e == SkipVecs(s, ListOpen(s, i) + 1)
    IN  IF HeaderAt(s, i) # 0 /\ Is(s, e, "RP") THEN SemiAfterWs(s, e + 1) ELSE 0

DeclEnd(s, i) ==
    IF UniformDeclEnd(s, i) # 0 THEN UniformDeclEnd(s, i) ELSE NonuniformDeclEnd(s, i)

FirstDecl(s) == FirstKind(s, 1, "internalField")
CountKind(s, k) == Cardinality({j \in 1..Len(s) : s[j].k = k})

\* the count a cell-centre text declares, and the tuples of its internal list
DeclaredCount(txt) == txt[SearchHeader(txt, 1)].v
InternalTuples(txt) == CountVecs(txt, WsEndNl(txt, SearchHeader(txt, 1) + 1) + 1)
WellFormedC(f) ==
    /\ f.exists /\ SearchHeader(f.data, 1) # 0
    /\ InternalTuples(f.data) = DeclaredCount(f.data)
AcceptedC(f) ==
    /\ f.exists /\ SearchHeader(f.data, 1) # 0
    /\ Len(ExtractBlock(f.data)) >= DeclaredCount(f.data)

\* where re.subn replaced: the start of the match in the text the run read
MatchStart(s) ==
    IF SearchPrimary(s, 1) # 0 THEN SearchPrimary(s, 1) ELSE SearchFallback(s, 1)

(***************************************************************************)
(* C1: a run that ends in one of the fatal errors leaves 0/U with the      *)
(* contents it had when the run started.                                   *)
(***************************************************************************)
C1_FailedRunLeavesU ==
    (pc = "failed") =>
        /\ err \in {"MissingU", "MissingC", "BadHeader", "CountMismatch", "PatternNotFound"}
        /\ fsU = preU

C1_Witness == pc = "failed" /\ err = "PatternNotFound" /\ fsU.exists /\ fsU = preU

(***************************************************************************)
(* C2: after a successful run 0/U.bak holds exactly what 0/U held when the *)
(* run started, whether or not a backup existed before.                    *)
(***************************************************************************)
C2_BackupIsOriginal == (pc = "done") => (fsBak.exists /\ fsBak.data = preU.data)

C2_Witness ==
    /\ pc = "done" /\ preBak.exists /\ preBak.data # preU.data
    /\ fsBak.data = preU.data /\ fsU.data # preU.data

(***************************************************************************)
(* C3 (as claimed): when the internal list of 0/C holds fewer tuples than  *)
(* the count it declares, the run ends in the count-mismatch error and     *)
(* writes neither 0/U nor 0/U.bak, whatever follows the list.              *)
(***************************************************************************)
C3_ShortListRejected ==
    ( /\ Ended /\ preU.exists /\ fsC.exists
      /\ SearchHeader(fsC.data, 1) # 0
      /\ InternalTuples(fsC.data) < DeclaredCount(fsC.data) )
    => (pc = "failed" /\ err = "CountMismatch" /\ fsU = preU /\ fsBak = preBak)

(***************************************************************************)
(* C4 (as claimed): a 0/U whose declaration is the nonuniform list closed  *)
(* by ")" and a single ";" is rewritten like the uniform form: with a      *)
(* well-formed 0/C the run succeeds and the declaration becomes the new    *)
(* block.                                                                  *)
(***************************************************************************)
StdNonuniform(s) ==
    /\ FirstDecl(s) # 0
    /\ NonuniformDeclEnd(s, FirstDecl(s)) # 0
    /\ SemiAfterWs(s, NonuniformDeclEnd(s, FirstDecl(s))) = 0

C4_NonuniformReplaced ==
    ( /\ Ended /\ run = 1 /\ u0.exists /\ StdNonuniform(u0.data) /\ WellFormedC(c0) )
    => /\ pc = "done"
       /\ fsU.data = Take(u0.data, FirstDecl(u0.data)) \o new_internal
                       \o Drop(u0.data, NonuniformDeclEnd(u0.data, FirstDecl(u0.data)))

(***************************************************************************)
(* C5: after a successful run the block written to 0/U declares the count  *)
(* parsed from 0/C and its list holds exactly that many tuples.            *)
(***************************************************************************)
C5_WrittenCount ==
    (pc = "done") =>
        LET s == fsU.data
            i == MatchStart(preU.data)
            c == HeaderAt(s, i)
            lp == ListOpen(s, i)
            e == SkipVecs(s, lp + 1)
        IN  /\ c # 0
            /\ nCells = DeclaredCount(fsC.data)
            /\ s[c].v = nCells
            /\ CountVecs(s, lp + 1) = nCells
            /\ Is(s, e, "RP") /\ Is(s, e + 1, "SC")

C5_Witness ==
    /\ pc = "done" /\ nCells = 1 /\ Len(vecs) > nCells
    /\ CountVecs(fsU.data, ListOpen(fsU.data, MatchStart(preU.data)) + 1) = 1

(***************************************************************************)
(* C6 (as claimed): the first element of every tuple written to 0/U is the *)
(* constant 0.                                                             *)
(***************************************************************************)
C6_XIsZero ==
    (pc = "done") =>
        AllFirst(fsU.data, ListOpen(fsU.data, MatchStart(preU.data)) + 1, tFlt(0, 1))

(***************************************************************************)
(* C7 (as claimed): a successful run changes only the internal-data        *)
(* declaration of 0/U: the text before the declaration and the text after  *)
(* its closing ";" are kept as they were, and 0/C is not written.          *)
(***************************************************************************)
C7_OnlyDeclarationChanged ==
    (pc = "done") =>
        LET s == preU.data
            i == MatchStart(s)
        IN  /\ fsC = c0
            /\ DeclEnd(s, i) # 0
            /\ fsU.data = Take(s, i) \o new_internal \o Drop(s, DeclEnd(s, i))

(***************************************************************************)
(* C8: two runs that read the same 0/U and parse the same cell count write *)
(* the same 0/U and the same 0/U.bak, whatever the coordinates in 0/C.     *)
(***************************************************************************)
C8_Deterministic ==
    \A r1, r2 \in results :
        (r1.u = r2.u /\ r1.n = r2.n) => (r1.outU = r2.outU /\ r1.outBak = r2.outBak)

C8_Witness ==
    \E r1, r2 \in results :
        /\ r1.u = r2.u /\ r1.n = r2.n /\ r1.n = MaxCells
        /\ r1.c # r2.c
        /\ r1.outU = r2.outU /\ r1.outU # r1.u

(***************************************************************************)
(* C9: the backup is complete before 0/U is opened for writing, and at     *)
(* every point of a run, an interrupted one included, the contents 0/U had *)
(* when the run started are whole in 0/U or in 0/U.bak.                    *)
(***************************************************************************)
C9_OriginalNeverLost ==
    /\ (fsU = preU) \/ (fsBak.exists /\ fsBak.data = preU.data)
    /\ (pc \in {"uOpen", "uWrite", "done"}) => (fsBak.exists /\ fsBak.data = preU.data)

C9_Witness ==
    /\ pc = "killed" /\ preU.data # <<>> /\ fsU = File(<<>>)
    /\ fsBak.data = preU.data

(***************************************************************************)
(* C10: from a 0/U with a single uniform declaration and an accepted 0/C,  *)
(* only the first run writes: every later run ends in the pattern-not-     *)
(* found error and leaves 0/U and 0/U.bak alone, so 0/U.bak keeps the text *)
(* 0/U had before the first run.                                           *)
(***************************************************************************)
SingleUniform(s) ==
    CountKind(s, "internalField") = 1 /\ UniformDeclEnd(s, FirstDecl(s)) # 0

OnlyFirstRunWrites ==
    /\ (run = 1 /\ Ended) => pc = "done"
    /\ (pc = "done") => fsBak = u0
    /\ (run >= 2) => (fsU = preU /\ fsBak = preBak /\ fsBak = u0)
    /\ (run >= 2 /\ Ended) => (pc = "failed" /\ err = "PatternNotFound")

\* the claimed condition: no ";" directly followed by ";" in the boundary section
AdjacentSemis(t) == \E j \in 1..(Len(t) - 1) : t[j].k = "SC" /\ t[j + 1].k = "SC"

SemisApart(t) == \E j \in 1..Len(t) : t[j].k = "SC" /\ SemiAfterWs(t, j + 1) # 0

C10_Pre ==
    /\ u0.exists /\ AcceptedC(c0) /\ SingleUniform(u0.data)
    /\ ~SemisApart(Drop(u0.data, UniformDeclEnd(u0.data, FirstDecl(u0.data)) - 1))

====
